---- MODULE Spec2Model ----
(***************************************************************************)
(* A model of src/RecastNavigationJSPlugin.ts: the RecastJSCrowd agent     *)
(* bookkeeping and time sub-stepping, and the RecastNavigationJSPlugin     *)
(* navmesh / query / tile-cache state.                                     *)
(*                                                                         *)
(* Time is counted in ticks of 1/3000 s, so that Epsilon (0.001 s), 1/60 s *)
(* and 1/30 s are the integers 3, 50 and 100.  A step size, which the code *)
(* computes by a division, is an exact rational <<numerator, denominator>> *)
(* of ticks; floating-point rounding is not modelled.                      *)
(*                                                                         *)
(* JavaScript arrays are sequences; the code's 0-based slot i is element   *)
(* i + 1.  A read past the end of an array gives Undefined.                *)
(***************************************************************************)
EXTENDS Integers, Sequences, FiniteSets, TLC

VARIABLES
    (* RecastNavigationJSPlugin *)
    timeStep,               \* _timeStep, in ticks
    maximumSubStepCount,    \* _maximumSubStepCount
    (* RecastJSCrowd *)
    recastCrowd,            \* the detour crowd: slot -> Free or an agent
    transforms,             \* transforms: one TransformNode per agent
    agents,                 \* agents: the crowd's agent indices
    reachRadii,             \* reachRadii
    agentDestinationArmed,  \* _agentDestinationArmed
    agentDestination,       \* _agentDestination
    position,               \* TransformNode.position of every scene node
    (* history *)
    gotoIssued,             \* per agent index: agentGoto was called since its addAgent
    reached,                \* per agent index: notifications since its last agentGoto
    lastOp,                 \* the operation that ran last, with what it did
    (* RecastNavigationJSPlugin: navigation mesh *)
    worker,                 \* _worker is not null
    positions,              \* _positions
    indices,                \* _indices
    navMesh,                \* navMesh
    navMeshQuery,           \* _navMeshQuery
    tileCache,              \* _tileCache
    posted,                 \* messages posted to the worker and not answered yet,
                            \* oldest first: the data sent and the request's completion
    onmessage,              \* _worker.onmessage: the completion it calls
    inCompletion,           \* the handler is inside the completion callback
    created,                \* navigation meshes and tile caches created so far
    navMeshData,            \* per navigation mesh that navMesh or the query refers
                            \* to: the geometry it was made of
    defaultQueryHalfExtents, \* _navMeshQuery.defaultQueryHalfExtents: the value
                            \* the object holds, Undefined without a query
    tempVec1,               \* the object _tempVec1 refers to: the plugin's own
                            \* vector or the query's defaultQueryHalfExtents
    crowdNavMesh,           \* the navMesh given to new Crowd by the crowd's
                            \* constructor, Undefined before createCrowd
    (* RecastNavigationJSPlugin and RecastJSCrowd: the scene's frames *)
    timeFactor,             \* _timeFactor
    onBeforeAnimationsObserver, \* _onBeforeAnimationsObserver is registered with
                            \* scene.onBeforeAnimationsObservable
    onReachTargetObservers, \* the observers of onReachTargetObservable
    disposed                \* recastCrowd is destroyed

sceneVars == <<onBeforeAnimationsObserver, onReachTargetObservers, disposed>>
crowdVars == <<recastCrowd, transforms, agents, reachRadii, agentDestinationArmed,
               agentDestination, position, gotoIssued, reached, sceneVars>>
stepVars == <<timeStep, maximumSubStepCount, timeFactor>>
extentVars == <<defaultQueryHalfExtents, tempVec1>>
navVars == <<worker, positions, indices, navMesh, navMeshQuery, tileCache,
             posted, onmessage, inCompletion, created, navMeshData, extentVars,
             crowdNavMesh>>
vars == <<stepVars, crowdVars, navVars, lastOp>>

(***************************************************************************)
(* Bounds                                                                  *)
(***************************************************************************)
MaxAgents == 2      \* maxAgents given to createCrowd: the detour crowd's slots
DeltaGrain == 25    \* ticks between two sampled deltaTimes
MaxDelta == 60      \* the longest sampled deltaTime, in grains (0.5 s)
MaxCreated == 3     \* navigation meshes and tile caches created by one plugin
MaxPosted == 2      \* build requests the worker has not answered yet
MaxObstacles == 1   \* obstacles held by the tile cache

(***************************************************************************)
(* Program constants                                                       *)
(***************************************************************************)
Epsilon == 3                    \* 0.001 s
DefaultTimeStep == 50           \* 1 / 60 s
DefaultMaximumSubStepCount == 10
DefaultTimeFactor == 1

Slots == 0 .. (MaxAgents - 1)
Free == [active |-> FALSE]
Undefined == {}
NoTarget == {}

Vec(x, y, z) == [x |-> x, y |-> y, z |-> z]
Origin == Vec(0, 0, 0)
Positions == {Origin, Vec(1, 0, 0)}
Destinations == {Vec(1, 0, 0)}
TransformNodes == {"nodeA", "nodeB"}
\* IAgentParameters as given to addAgent: reachRadius 0 stands for "not set"
NativeParameters == {"radius", "height", "maxAcceleration", "maxSpeed",
                     "collisionQueryRange", "pathOptimizationRange", "separationWeight"}
IAgentParameters(radius, reachRadius) ==
    [radius |-> radius, height |-> 1, maxAcceleration |-> 1, maxSpeed |-> 1,
     collisionQueryRange |-> 1, pathOptimizationRange |-> 1, separationWeight |-> 1,
     reachRadius |-> reachRadius]
AgentParameters == {IAgentParameters(1, 0), IAgentParameters(2, 1)}
\* updateAgentParameters(index, parameters): every field is given or undefined
ParameterFields == NativeParameters \cup {"reachRadius"}
Partial(present, value) ==
    [f \in ParameterFields |-> IF f \in present THEN {value} ELSE Undefined]
ParameterUpdates == {Partial({}, 3), Partial({"radius"}, 3), Partial({"maxSpeed"}, 0),
                     Partial({"height", "separationWeight"}, 3),
                     Partial({"reachRadius"}, 3)}
\* deltaTimes of update: around Epsilon, and every DeltaGrain ticks after
DeltaTimes == (0 .. (Epsilon + 1)) \cup {k * DeltaGrain : k \in 1 .. MaxDelta}
TimeSteps == {0, 50, 100}
SubStepCounts == {0, 1, 10}
FrameDeltas == {0, 50}
ReachRadiusValues == {1}
TimeFactors == {-1, 0, 1}
Observers == {"observer"}

\* Vertex and index data: a mesh's data, an array without elements, and an
\* array whose buffer was transferred to the worker
EmptyArray == "empty"
Detached == "detached"
Geometries == {"ground", "ramp"}
Mesh(p, i) == [positions |-> p, indices |-> i]
MeshInputs == {<<>>, <<Mesh("ground", "ground")>>, <<Mesh("ramp", "ramp")>>,
               <<Mesh(EmptyArray, EmptyArray)>>}
NoCompletion == "none"
Completions == {"completionA", "completionB"}
\* exportNavMesh(navMesh): the data holds the mesh's geometry
ExportNavMesh(geometry) == [geometry |-> geometry]
\* The data getNavmeshData returned on a plugin that built its mesh
NavmeshDatas == {ExportNavMesh(g) : g \in Geometries}
MeshIds == 1 .. MaxCreated
NoData == "none"
Probes == {Vec(0, 0, 0), Vec(1, 0, 0)}
\* findClosestPoint on a mesh of the given geometry: meshes of different
\* geometry answer differently
ClosestPoint(geometry, probe) == [on |-> geometry, nearest |-> probe]
ObstacleRefs == 1 .. MaxObstacles
NoMesh == [kind |-> "none"]
NoQuery == [bound |-> FALSE]
NoTileCache == [initialized |-> FALSE]
\* The objects _tempVec1 can refer to
OwnVector == "own"
HalfExtents == "defaultQueryHalfExtents"
\* The extents a new NavMeshQuery starts with, and those given to
\* setDefaultQueryExtent
DefaultQueryHalfExtents == Vec(1, 1, 1)
Extents == {Vec(2, 2, 2)}

(***************************************************************************)
(* Exact rationals <<n, d>>, d > 0                                         *)
(***************************************************************************)
RECURSIVE Gcd(_, _)
Gcd(a, b) == IF b = 0 THEN a ELSE Gcd(b, a % b)

Rat(n, d) == LET g == Gcd(n, d) IN IF g = 0 THEN <<0, 1>> ELSE <<n \div g, d \div g>>
RatAdd(p, q) == Rat(p[1] * q[2] + q[1] * p[2], p[2] * q[2])
RatEq(p, q) == p[1] * q[2] = q[1] * p[2]

(***************************************************************************)
(* JavaScript arrays                                                       *)
(***************************************************************************)
\* arr[i]: {v} when slot i exists, Undefined otherwise
ArrayGet(arr, i) == IF i >= 0 /\ i < Len(arr) THEN {arr[i + 1]} ELSE Undefined

\* Array.prototype.indexOf: the first slot holding x, or -1
IndexOf(arr, x) ==
    IF \E k \in 1 .. Len(arr) : arr[k] = x
    THEN (CHOOSE k \in 1 .. Len(arr) : arr[k] = x /\ \A j \in 1 .. (k - 1) : arr[j] # x) - 1
    ELSE -1

\* arr.splice(item, 1) for item >= 0: removes slot item when it exists
Splice(arr, item) ==
    IF item < Len(arr)
    THEN [k \in 1 .. (Len(arr) - 1) |-> IF k <= item THEN arr[k] ELSE arr[k + 1]]
    ELSE arr

\* arr[item] = v on an existing slot
ArraySet(arr, item, v) == [arr EXCEPT ![item + 1] = v]

(***************************************************************************)
(* The detour crowd (recast-navigation's Crowd), as this file uses it      *)
(***************************************************************************)
ActiveSlots(crowd) == {s \in Slots : crowd[s].active}
FreeSlots(crowd) == Slots \ ActiveSlots(crowd)

\* Crowd.addAgent takes the first free slot
FirstFree(crowd) == CHOOSE s \in FreeSlots(crowd) : \A t \in FreeSlots(crowd) : s <= t

\* Crowd.getAgent(index)?.position() ?? {x: 0, y: 0, z: 0}
GetAgentPosition(crowd, index) ==
    IF index \in ActiveSlots(crowd) THEN crowd[index].position ELSE Origin

\* After Crowd.update calls that together simulate some time, every agent
\* may stand anywhere on the mesh; with no time simulated nothing moves.
CrowdAfter(crowd, moved) ==
    [s \in Slots |-> IF crowd[s].active
                     THEN [crowd[s] EXCEPT !.position = moved[s]]
                     ELSE crowd[s]]

(***************************************************************************)
(* RecastNavigationJSPlugin: time step settings                            *)
(***************************************************************************)
SetTimeStep(newTimeStep) ==
    /\ timeStep' = newTimeStep
    /\ lastOp' = [op |-> "setTimeStep"]
    /\ UNCHANGED <<maximumSubStepCount, timeFactor, crowdVars, navVars>>

SetMaximumSubStepCount(newStepCount) ==
    /\ maximumSubStepCount' = newStepCount
    /\ lastOp' = [op |-> "setMaximumSubStepCount"]
    /\ UNCHANGED <<timeStep, timeFactor, crowdVars, navVars>>

(***************************************************************************)
(* RecastJSCrowd                                                           *)
(***************************************************************************)
\* parameters.reachRadius ? parameters.reachRadius : parameters.radius
ReachRadiusOf(parameters) ==
    IF parameters.reachRadius # 0 THEN parameters.reachRadius ELSE parameters.radius

AddAgent(pos, parameters, transform) ==
    /\ FreeSlots(recastCrowd) # {}
    /\ LET agentIndex == FirstFree(recastCrowd)
       IN /\ recastCrowd' = [recastCrowd EXCEPT ![agentIndex] =
                                [active |-> TRUE, position |-> pos, target |-> NoTarget,
                                 parameters |-> [f \in NativeParameters |-> parameters[f]],
                                 reachRadius |-> ReachRadiusOf(parameters)]]
          /\ transforms' = Append(transforms, transform)
          /\ agents' = Append(agents, agentIndex)
          /\ agentDestinationArmed' = Append(agentDestinationArmed, FALSE)
          /\ agentDestination' = Append(agentDestination, Origin)
          /\ gotoIssued' = [gotoIssued EXCEPT ![agentIndex] = FALSE]
          /\ reached' = [reached EXCEPT ![agentIndex] = 0]
          /\ lastOp' = [op |-> "addAgent", index |-> agentIndex,
                        reusedArmed |-> /\ lastOp.op = "removeAgent"
                                        /\ lastOp.index = agentIndex
                                        /\ lastOp.wasArmed]
    /\ UNCHANGED <<reachRadii, position, stepVars, navVars, sceneVars>>

\* agentGoto taking the agent index for the array slot
AgentGotoAtIndex(index, destination) ==
    /\ recastCrowd' = IF recastCrowd[index].active
                      THEN [recastCrowd EXCEPT ![index].target = {destination}]
                      ELSE recastCrowd
    /\ IF index < Len(agents)
       THEN /\ agentDestinationArmed' = ArraySet(agentDestinationArmed, index, TRUE)
            /\ agentDestination' = ArraySet(agentDestination, index, destination)
            /\ gotoIssued' = [gotoIssued EXCEPT ![index] = TRUE]
            /\ reached' = [reached EXCEPT ![index] = 0]
       ELSE UNCHANGED <<agentDestinationArmed, agentDestination, gotoIssued, reached>>
    /\ lastOp' = [op |-> "agentGoto", index |-> index, destination |-> destination]
    /\ UNCHANGED <<transforms, agents, reachRadii, position, stepVars, navVars, sceneVars>>

AgentGoto(index, destination) ==
    LET item == IndexOf(agents, index)
    IN /\ recastCrowd' = IF recastCrowd[index].active
                         THEN [recastCrowd EXCEPT ![index].target = {destination}]
                         ELSE recastCrowd
       /\ IF item > -1
          THEN /\ agentDestinationArmed' = ArraySet(agentDestinationArmed, item, TRUE)
               /\ agentDestination' = ArraySet(agentDestination, item, destination)
               /\ gotoIssued' = [gotoIssued EXCEPT ![index] = TRUE]
               /\ reached' = [reached EXCEPT ![index] = 0]
          ELSE UNCHANGED <<agentDestinationArmed, agentDestination, gotoIssued, reached>>
       /\ lastOp' = [op |-> "agentGoto", index |-> index, destination |-> destination]
       /\ UNCHANGED <<transforms, agents, reachRadii, position, stepVars, navVars, sceneVars>>

\* agentTeleport clearing the agent's armed flag
AgentTeleportDisarming(index, destination) ==
    /\ recastCrowd' = IF recastCrowd[index].active
                      THEN [recastCrowd EXCEPT ![index].position = destination]
                      ELSE recastCrowd
    /\ agentDestinationArmed' = IF IndexOf(agents, index) > -1
                                THEN ArraySet(agentDestinationArmed,
                                              IndexOf(agents, index), FALSE)
                                ELSE agentDestinationArmed
    /\ lastOp' = [op |-> "agentTeleport", index |-> index]
    /\ UNCHANGED <<transforms, agents, reachRadii, agentDestination, position,
                   gotoIssued, reached, stepVars, navVars, sceneVars>>

AgentTeleport(index, destination) ==
    /\ recastCrowd' = IF recastCrowd[index].active
                      THEN [recastCrowd EXCEPT ![index].position = destination]
                      ELSE recastCrowd
    /\ lastOp' = [op |-> "agentTeleport", index |-> index]
    /\ UNCHANGED <<transforms, agents, reachRadii, agentDestinationArmed,
                   agentDestination, position, gotoIssued, reached,
                   stepVars, navVars, sceneVars>>

UpdateAgentParameters(index, parameters) ==
    /\ recastCrowd' =
          IF recastCrowd[index].active
          THEN [recastCrowd EXCEPT ![index].parameters =
                   [f \in NativeParameters |->
                       IF parameters[f] # Undefined
                       THEN CHOOSE v \in parameters[f] : TRUE
                       ELSE @[f]]]
          ELSE recastCrowd
    /\ lastOp' = [op |-> "updateAgentParameters", index |-> index,
                  parameters |-> parameters]
    /\ UNCHANGED <<transforms, agents, reachRadii, agentDestinationArmed,
                   agentDestination, position, gotoIssued, reached,
                   stepVars, navVars, sceneVars>>

\* removeAgent leaving the armed flags as they are
RemoveAgentKeepingFlags(index) ==
    /\ recastCrowd' = [recastCrowd EXCEPT ![index] = Free]
    /\ IF IndexOf(agents, index) > -1
       THEN /\ agents' = Splice(agents, IndexOf(agents, index))
            /\ transforms' = Splice(transforms, IndexOf(agents, index))
            /\ reachRadii' = Splice(reachRadii, IndexOf(agents, index))
            /\ agentDestination' = Splice(agentDestination, IndexOf(agents, index))
            /\ UNCHANGED agentDestinationArmed
       ELSE UNCHANGED <<agents, transforms, reachRadii, agentDestinationArmed,
                        agentDestination>>
    /\ lastOp' = [op |-> "removeAgent", index |-> index, item |-> IndexOf(agents, index),
                  wasArmed |-> ArrayGet(agentDestinationArmed, IndexOf(agents, index)) = {TRUE}]
    /\ gotoIssued' = [gotoIssued EXCEPT ![index] = FALSE]
    /\ reached' = [reached EXCEPT ![index] = 0]
    /\ UNCHANGED <<position, stepVars, navVars, sceneVars>>

\* removeAgent taking the agent index for the array slot
RemoveAgentAtIndex(index) ==
    /\ recastCrowd' = [recastCrowd EXCEPT ![index] = Free]
    /\ IF IndexOf(agents, index) > -1
       THEN /\ agents' = Splice(agents, index)
            /\ transforms' = Splice(transforms, index)
            /\ reachRadii' = Splice(reachRadii, index)
            /\ agentDestinationArmed' = Splice(agentDestinationArmed, index)
            /\ agentDestination' = Splice(agentDestination, index)
       ELSE UNCHANGED <<agents, transforms, reachRadii, agentDestinationArmed,
                        agentDestination>>
    /\ lastOp' = [op |-> "removeAgent", index |-> index, item |-> IndexOf(agents, index),
                  wasArmed |-> ArrayGet(agentDestinationArmed, IndexOf(agents, index)) = {TRUE}]
    /\ gotoIssued' = [gotoIssued EXCEPT ![index] = FALSE]
    /\ reached' = [reached EXCEPT ![index] = 0]
    /\ UNCHANGED <<position, stepVars, navVars, sceneVars>>

RemoveAgent(index) ==
    LET item == IndexOf(agents, index)
    IN /\ recastCrowd' = [recastCrowd EXCEPT ![index] = Free]
       /\ IF item > -1
          THEN /\ agents' = Splice(agents, item)
               /\ transforms' = Splice(transforms, item)
               /\ reachRadii' = Splice(reachRadii, item)
               /\ agentDestinationArmed' = Splice(agentDestinationArmed, item)
               /\ agentDestination' = Splice(agentDestination, item)
          ELSE UNCHANGED <<agents, transforms, reachRadii, agentDestinationArmed,
                           agentDestination>>
       /\ lastOp' = [op |-> "removeAgent", index |-> index, item |-> item,
                     wasArmed |-> ArrayGet(agentDestinationArmed, item) = {TRUE}]
       /\ gotoIssued' = [gotoIssued EXCEPT ![index] = FALSE]
       /\ reached' = [reached EXCEPT ![index] = 0]
       /\ UNCHANGED <<position, stepVars, navVars, sceneVars>>

(***************************************************************************)
(* RecastJSCrowd.update: the calls of Crowd.update                         *)
(***************************************************************************)
\* the floor clamped up to 1 only, the maximum sub-step count ignored
IterationCountUncapped(deltaTime, ts, maxStepCount) ==
    LET floor == deltaTime \div ts
    IN IF floor < 1 THEN 1 ELSE floor

IterationCount(deltaTime, ts, maxStepCount) ==
    LET floor == deltaTime \div ts
        capped == IF maxStepCount # 0 /\ floor > maxStepCount THEN maxStepCount ELSE floor
    IN IF capped < 1 THEN 1 ELSE capped

\* iterationCount steps of exactly the time step, the rest of deltaTime dropped
StepSizeFixed(deltaTime, iterationCount) == Rat(timeStep, 1)

\* const step = deltaTime / iterationCount
StepSize(deltaTime, iterationCount) == Rat(deltaTime, iterationCount)

\* Every call of this.recastCrowd.update made by update(deltaTime), in order,
\* each with the source line that makes it and the step it is given.
CrowdUpdateCalls(deltaTime, ts, maxStepCount) ==
    <<[line |-> 959, step |-> Rat(deltaTime, 1)]>> \o
    (IF deltaTime <= Epsilon
     THEN <<>>
     ELSE IF ts <= Epsilon
          THEN <<[line |-> 968, step |-> Rat(deltaTime, 1)]>>
          ELSE LET iterationCount == IterationCount(deltaTime, ts, maxStepCount)
               IN [i \in 1 .. iterationCount |->
                      [line |-> 980, step |-> StepSize(deltaTime, iterationCount)]])

(***************************************************************************)
(* RecastJSCrowd.update: transforms and arrival                            *)
(***************************************************************************)
\* agentPosition.y > groundY && agentPosition.y < ceilingY
\*   && distanceXZSquared < radius * radius
\* radius is this.reachRadii[index]; with it undefined every operand is NaN
\* and every comparison is false.
ReachTest(agentPosition, destination, radius) ==
    IF radius = Undefined
    THEN FALSE
    ELSE LET r == CHOOSE v \in radius : TRUE
             dx == agentPosition.x - destination.x
             dz == agentPosition.z - destination.z
             groundY == destination.y - r
             ceilingY == destination.y + r
             distanceXZSquared == dx * dx + dz * dz
         IN /\ agentPosition.y > groundY
            /\ agentPosition.y < ceilingY
            /\ distanceXZSquared < r * r

\* The loop body notifying without clearing the armed flag
UpdateSlotKeepingArmed(index, st) ==
    LET agentIndex == agents[index + 1]
        agentPosition == GetAgentPosition(st.crowd, agentIndex)
        written == [st EXCEPT !.position[transforms[index + 1]] = agentPosition]
    IN IF /\ st.armed[index + 1]
          /\ ReachTest(agentPosition, agentDestination[index + 1], ArrayGet(reachRadii, index))
       THEN [written EXCEPT
                !.notified = Append(@, [agentIndex |-> agentIndex,
                                        destination |-> agentDestination[index + 1]])]
       ELSE written

\* One pass of the loop body for slot index; st carries what the loop writes.
UpdateSlot(index, st) ==
    LET agentIndex == agents[index + 1]
        agentPosition == GetAgentPosition(st.crowd, agentIndex)
        written == [st EXCEPT !.position[transforms[index + 1]] = agentPosition]
    IN IF /\ st.armed[index + 1]
          /\ ReachTest(agentPosition, agentDestination[index + 1], ArrayGet(reachRadii, index))
       THEN [written EXCEPT
                !.armed[index + 1] = FALSE,
                !.notified = Append(@, [agentIndex |-> agentIndex,
                                        destination |-> agentDestination[index + 1]])]
       ELSE written

RECURSIVE UpdateTransforms(_, _)
UpdateTransforms(index, st) ==
    IF index < Len(agents)
    THEN UpdateTransforms(index + 1, UpdateSlot(index, st))
    ELSE st

\* How many of the notifications are for agent index s
NotifiedCount(notified, s) ==
    Cardinality({k \in 1 .. Len(notified) : notified[k].agentIndex = s})

Update(deltaTime) ==
    LET calls == CrowdUpdateCalls(deltaTime, timeStep, maximumSubStepCount)
    IN \E moved \in [Slots -> Positions] :
          /\ deltaTime = 0 => moved = [s \in Slots |-> GetAgentPosition(recastCrowd, s)]
          /\ \A s \in FreeSlots(recastCrowd) : moved[s] = Origin
          /\ LET crowd == CrowdAfter(recastCrowd, moved)
                 start == [crowd |-> crowd, position |-> position,
                           armed |-> agentDestinationArmed, notified |-> <<>>]
                 st == IF deltaTime <= Epsilon THEN start ELSE UpdateTransforms(0, start)
             IN /\ recastCrowd' = crowd
                /\ position' = st.position
                /\ agentDestinationArmed' = st.armed
                /\ reached' = [s \in Slots |->
                                 LET n == reached[s] + NotifiedCount(st.notified, s)
                                 IN IF n > 2 THEN 2 ELSE n]
                /\ lastOp' = [op |-> "update", deltaTime |-> deltaTime, calls |-> calls,
                              notified |-> st.notified]
          /\ UNCHANGED <<transforms, agents, reachRadii, agentDestination, gotoIssued,
                          stepVars, navVars, sceneVars>>

(***************************************************************************)
(* The scene's frames, the time factor and dispose                         *)
(***************************************************************************)
\* set timeFactor storing the value as given
SetTimeFactorAsGiven(value) ==
    /\ timeFactor' = value
    /\ lastOp' = [op |-> "setTimeFactor"]
    /\ UNCHANGED <<timeStep, maximumSubStepCount, crowdVars, navVars>>

\* set timeFactor(value): Math.max(value, 0)
SetTimeFactor(value) ==
    /\ timeFactor' = IF value > 0 THEN value ELSE 0
    /\ lastOp' = [op |-> "setTimeFactor"]
    /\ UNCHANGED <<timeStep, maximumSubStepCount, crowdVars, navVars>>

\* onReachTargetObservable.add(observer)
AddObserver(observer) ==
    /\ onReachTargetObservers' = onReachTargetObservers \cup {observer}
    /\ lastOp' = [op |-> "addObserver"]
    /\ UNCHANGED <<recastCrowd, transforms, agents, reachRadii, agentDestinationArmed,
                    agentDestination, position, gotoIssued, reached,
                    onBeforeAnimationsObserver, disposed, stepVars, navVars>>

\* scene.onBeforeAnimationsObservable fires: the crowd's observer, while it
\* is registered, calls update(getDeltaTime() * 0.001 * timeFactor)
Frame(engineDelta) ==
    IF onBeforeAnimationsObserver
    THEN Update(engineDelta * timeFactor)
    ELSE /\ lastOp' = [op |-> "frame", engineDelta |-> engineDelta]
         /\ UNCHANGED <<crowdVars, stepVars, navVars>>

\* dispose leaving the crowd's observer registered with the scene
DisposeKeepingObserver ==
    /\ ~disposed
    /\ disposed' = TRUE
    /\ onReachTargetObservers' = {}
    /\ lastOp' = [op |-> "dispose"]
    /\ UNCHANGED <<recastCrowd, transforms, agents, reachRadii, agentDestinationArmed,
                    agentDestination, position, gotoIssued, reached,
                    onBeforeAnimationsObserver, stepVars, navVars>>

Dispose ==
    /\ ~disposed
    /\ disposed' = TRUE
    /\ onBeforeAnimationsObserver' = FALSE
    /\ onReachTargetObservers' = {}
    /\ lastOp' = [op |-> "dispose"]
    /\ UNCHANGED <<recastCrowd, transforms, agents, reachRadii, agentDestinationArmed,
                    agentDestination, position, gotoIssued, reached, stepVars, navVars>>

\* What the observers of onReachTargetObservable were given by the last update
Deliveries ==
    IF lastOp.op = "update"
    THEN {[observer |-> o, notification |-> n] :
             o \in onReachTargetObservers, n \in {lastOp.notified[k] : k \in 1 .. Len(lastOp.notified)}}
    ELSE {}

\* reachRadii is a public field that no method of the crowd fills: the caller
\* of the crowd stores a radius in it (reachRadii[item] = radius, item at most
\* the array's length)
SetReachRadius(item, radius) ==
    /\ item <= Len(reachRadii)
    /\ reachRadii' = IF item < Len(reachRadii)
                     THEN ArraySet(reachRadii, item, radius)
                     ELSE Append(reachRadii, radius)
    /\ lastOp' = [op |-> "setReachRadius"]
    /\ UNCHANGED <<recastCrowd, transforms, agents, agentDestinationArmed, agentDestination,
                    position, gotoIssued, reached, stepVars, navVars, sceneVars>>

(***************************************************************************)
(* RecastJSCrowd.update with a subscriber that calls back into the crowd   *)
(***************************************************************************)
\* What a subscriber of onReachTargetObservable does with a notification
Reactions ==
    {[call |-> "removeAgent"],
     [call |-> "addAgent", pos |-> Origin, parameters |-> IAgentParameters(1, 0),
      transform |-> "nodeB"]}

\* removeAgent(index) run inside update: st carries the crowd's fields
RemoveAgentIn(st, index) ==
    LET item == IndexOf(st.agents, index)
        freed == [st EXCEPT !.crowd[index] = Free,
                            !.gotoIssued[index] = FALSE,
                            !.reached[index] = 0]
    IN IF item > -1
       THEN [freed EXCEPT !.agents = Splice(@, item),
                          !.transforms = Splice(@, item),
                          !.reachRadii = Splice(@, item),
                          !.armed = Splice(@, item),
                          !.destination = Splice(@, item)]
       ELSE freed

\* addAgent(pos, parameters, transform) run inside update
AddAgentIn(st, pos, parameters, transform) ==
    LET agentIndex == FirstFree(st.crowd)
    IN [st EXCEPT !.crowd[agentIndex] =
                      [active |-> TRUE, position |-> pos, target |-> NoTarget,
                       parameters |-> [f \in NativeParameters |-> parameters[f]],
                       reachRadius |-> ReachRadiusOf(parameters)],
                  !.transforms = Append(@, transform),
                  !.agents = Append(@, agentIndex),
                  !.armed = Append(@, FALSE),
                  !.destination = Append(@, Origin),
                  !.gotoIssued[agentIndex] = FALSE,
                  !.reached[agentIndex] = 0]

\* The subscriber's callback for the notification of agentIndex: it removes
\* the agent that arrived, or adds an agent while the crowd has room
Subscriber(reaction, st, agentIndex) ==
    IF reaction.call = "removeAgent"
    THEN RemoveAgentIn(st, agentIndex)
    ELSE IF FreeSlots(st.crowd) # {}
         THEN AddAgentIn(st, reaction.pos, reaction.parameters, reaction.transform)
         ELSE st

\* One pass of the loop body for slot index, on the arrays as they are at
\* that moment; notifyObservers runs the callback before the pass ends
UpdateSlotNotifying(index, st, reaction) ==
    LET agentIndex == st.agents[index + 1]
        agentPosition == GetAgentPosition(st.crowd, agentIndex)
        written == [st EXCEPT !.position[st.transforms[index + 1]] = agentPosition,
                              !.processed = Append(@, agentIndex)]
    IN IF /\ st.armed[index + 1]
          /\ ReachTest(agentPosition, st.destination[index + 1],
                       ArrayGet(st.reachRadii, index))
       THEN Subscriber(reaction,
                       [written EXCEPT
                           !.armed[index + 1] = FALSE,
                           !.reached[agentIndex] = IF @ < 2 THEN @ + 1 ELSE 2,
                           !.notified = Append(@, [agentIndex |-> agentIndex,
                                                   destination |-> st.destination[index + 1]])],
                       agentIndex)
       ELSE written

\* for (let index = 0; index < this.agents.length; index++): the length is
\* read again before every pass
RECURSIVE UpdateTransformsNotifying(_, _, _)
UpdateTransformsNotifying(index, st, reaction) ==
    IF index < Len(st.agents)
    THEN UpdateTransformsNotifying(index + 1, UpdateSlotNotifying(index, st, reaction),
                                   reaction)
    ELSE st

\* update(deltaTime) while onReachTargetObservable has a subscriber that
\* reacts to every notification by calling back into the crowd
UpdateNotifying(deltaTime, reaction) ==
    LET calls == CrowdUpdateCalls(deltaTime, timeStep, maximumSubStepCount)
    IN /\ onReachTargetObservers # {}
       /\ \E moved \in [Slots -> Positions] :
          /\ deltaTime = 0 => moved = [s \in Slots |-> GetAgentPosition(recastCrowd, s)]
          /\ \A s \in FreeSlots(recastCrowd) : moved[s] = Origin
          /\ LET start == [crowd |-> CrowdAfter(recastCrowd, moved),
                           position |-> position,
                           agents |-> agents, transforms |-> transforms,
                           reachRadii |-> reachRadii,
                           armed |-> agentDestinationArmed,
                           destination |-> agentDestination,
                           gotoIssued |-> gotoIssued, reached |-> reached,
                           notified |-> <<>>, processed |-> <<>>]
                 st == IF deltaTime <= Epsilon
                       THEN start
                       ELSE UpdateTransformsNotifying(0, start, reaction)
             IN /\ recastCrowd' = st.crowd
                /\ position' = st.position
                /\ agents' = st.agents
                /\ transforms' = st.transforms
                /\ reachRadii' = st.reachRadii
                /\ agentDestinationArmed' = st.armed
                /\ agentDestination' = st.destination
                /\ gotoIssued' = st.gotoIssued
                /\ reached' = st.reached
                /\ lastOp' = [op |-> "update", deltaTime |-> deltaTime, calls |-> calls,
                              notified |-> st.notified, reaction |-> reaction,
                              processed |-> st.processed]
          /\ UNCHANGED <<stepVars, navVars, sceneVars>>

(***************************************************************************)
(* RecastNavigationJSPlugin: navigation mesh, query and tile cache         *)
(***************************************************************************)
\* The data of the meshes that the plugin still refers to, after mesh id was
\* made of geometry: a mesh that neither navMesh nor the query refers to is
\* out of the plugin's reach
MeshDataWith(id, geometry, mesh, query) ==
    [i \in MeshIds |->
        IF (mesh # NoMesh /\ mesh.id = i) \/ (query # NoQuery /\ query.navMesh = i)
        THEN IF i = id THEN geometry ELSE navMeshData[i]
        ELSE NoData]

\* The outcomes (success) the generator can report for the given data: it
\* cannot build from arrays without elements
GenerateOutcomes(p, i) ==
    IF p \in Geometries /\ i \in Geometries THEN BOOLEAN ELSE {FALSE}

\* The obstacles carved into the mesh of the given id: those of the tile
\* cache whose tiled mesh it is, none for any other mesh
ObstaclesOn(id) ==
    IF tileCache # NoTileCache /\ tileCache.id = id THEN tileCache.obstacles ELSE {}

\* NavMeshQuery.computePath on a mesh of the given geometry: the corridor from
\* start to end, or no path when an obstacle is carved into the mesh between
\* them
NavPath(geometry, obstacles, start, end) ==
    IF obstacles = {}
    THEN <<ClosestPoint(geometry, start), ClosestPoint(geometry, end)>>
    ELSE <<>>

\* What computePath(start, end) returns in the current state: the query
\* answers from the mesh it was made from; without a query the call throws
ComputePath(start, end) ==
    IF navMeshQuery = NoQuery
    THEN Undefined
    ELSE {NavPath(navMeshData[navMeshQuery.navMesh], ObstaclesOn(navMeshQuery.navMesh),
                  start, end)}

\* The answers of computePath for every start and end
PathAnswers == [start \in Probes, end \in Probes |-> ComputePath(start, end)]

\* this._tempVec1.x = v.x, .y = v.y, .z = v.z: the value of the query's
\* defaultQueryHalfExtents afterwards, which changes when _tempVec1 refers to
\* that very object
TempVec1Written(v) ==
    IF tempVec1 = HalfExtents THEN {v} ELSE defaultQueryHalfExtents

SetWorker(supported) ==
    /\ posted = <<>>
    /\ worker' = (worker \/ supported)
    /\ lastOp' = [op |-> "setWorker"]
    /\ UNCHANGED <<positions, indices, navMesh, navMeshQuery, tileCache, posted,
                    onmessage, inCompletion, created, navMeshData, crowdVars, stepVars, extentVars,
                    crowdNavMesh>>

\* createNavMesh assigning navMesh before it looks at success
CreateNavMeshPartial(meshes, completion) ==
    IF Len(meshes) = 0
    THEN /\ lastOp' = [op |-> "createNavMesh", outcome |-> "throws"]
         /\ UNCHANGED <<navVars, crowdVars, stepVars>>
    ELSE IF worker /\ completion # NoCompletion
    THEN /\ Len(posted) < MaxPosted
         /\ positions' = Detached
         /\ indices' = Detached
         /\ posted' = Append(posted, [positions |-> meshes[1].positions,
                                      indices |-> meshes[1].indices,
                                      completion |-> completion])
         /\ onmessage' = completion
         /\ lastOp' = [op |-> "createNavMesh", outcome |-> "posted"]
         /\ UNCHANGED <<worker, navMesh, navMeshQuery, tileCache, inCompletion, created,
                         navMeshData, crowdVars, stepVars, extentVars,
                         crowdNavMesh>>
    ELSE \E success \in GenerateOutcomes(meshes[1].positions, meshes[1].indices) :
            /\ positions' = meshes[1].positions
            /\ indices' = meshes[1].indices
            /\ IF success
               THEN /\ created < MaxCreated
                    /\ navMesh' = [kind |-> "solo", id |-> created + 1]
                    /\ navMeshQuery' = [bound |-> TRUE, navMesh |-> created + 1]
                    /\ created' = created + 1
                    /\ navMeshData' = MeshDataWith(created + 1, meshes[1].positions,
                                                   navMesh', navMeshQuery')
                    /\ defaultQueryHalfExtents' = {DefaultQueryHalfExtents}
                    /\ tempVec1' = OwnVector
                    /\ lastOp' = [op |-> "createNavMesh", outcome |-> "built"]
               ELSE /\ created < MaxCreated
                    /\ navMesh' = [kind |-> "solo", id |-> created + 1]
                    /\ created' = created + 1
                    /\ navMeshData' = MeshDataWith(created + 1, meshes[1].positions,
                                                   navMesh', navMeshQuery)
                    /\ lastOp' = [op |-> "createNavMesh", outcome |-> "throws"]
                    /\ UNCHANGED <<navMeshQuery, extentVars>>
            /\ UNCHANGED <<worker, tileCache, posted, onmessage, inCompletion,
                            crowdVars, stepVars, crowdNavMesh>>

CreateNavMesh(meshes, completion) ==
    IF Len(meshes) = 0
    THEN /\ lastOp' = [op |-> "createNavMesh", outcome |-> "throws"]
         /\ UNCHANGED <<navVars, crowdVars, stepVars>>
    ELSE IF worker /\ completion # NoCompletion
    THEN /\ Len(posted) < MaxPosted
         /\ positions' = Detached
         /\ indices' = Detached
         /\ posted' = Append(posted, [positions |-> meshes[1].positions,
                                      indices |-> meshes[1].indices,
                                      completion |-> completion])
         /\ onmessage' = completion
         /\ lastOp' = [op |-> "createNavMesh", outcome |-> "posted"]
         /\ UNCHANGED <<worker, navMesh, navMeshQuery, tileCache, inCompletion, created,
                         navMeshData, crowdVars, stepVars, extentVars,
                         crowdNavMesh>>
    ELSE \E success \in GenerateOutcomes(meshes[1].positions, meshes[1].indices) :
            /\ positions' = meshes[1].positions
            /\ indices' = meshes[1].indices
            /\ IF success
               THEN /\ created < MaxCreated
                    /\ navMesh' = [kind |-> "solo", id |-> created + 1]
                    /\ navMeshQuery' = [bound |-> TRUE, navMesh |-> created + 1]
                    /\ created' = created + 1
                    /\ navMeshData' = MeshDataWith(created + 1, meshes[1].positions,
                                                   navMesh', navMeshQuery')
                    /\ defaultQueryHalfExtents' = {DefaultQueryHalfExtents}
                    /\ tempVec1' = OwnVector
                    /\ lastOp' = [op |-> "createNavMesh", outcome |-> "built"]
               ELSE /\ lastOp' = [op |-> "createNavMesh", outcome |-> "throws"]
                    /\ UNCHANGED <<navMesh, navMeshQuery, created, navMeshData,
                                    extentVars>>
            /\ UNCHANGED <<worker, tileCache, posted, onmessage, inCompletion,
                            crowdVars, stepVars, crowdNavMesh>>

\* The worker's reply arrives: the handler imports the data and calls the
\* completion callback
WorkerReply ==
    /\ posted # <<>>
    /\ ~inCompletion
    /\ created < MaxCreated
    /\ posted' = Tail(posted)
    /\ navMesh' = [kind |-> "imported", id |-> created + 1]
    /\ created' = created + 1
    /\ navMeshData' = MeshDataWith(created + 1, Head(posted).positions,
                                   navMesh', navMeshQuery)
    /\ inCompletion' = TRUE
    /\ lastOp' = [op |-> "onmessage", completion |-> onmessage,
                  request |-> Head(posted).completion]
    /\ UNCHANGED <<worker, positions, indices, navMeshQuery, tileCache, onmessage,
                    crowdVars, stepVars, extentVars,
                    crowdNavMesh>>

\* The completion callback returns: the handler makes the query
CompletionReturn ==
    /\ inCompletion
    /\ inCompletion' = FALSE
    /\ navMeshQuery' = [bound |-> TRUE, navMesh |-> navMesh.id]
    /\ defaultQueryHalfExtents' = {DefaultQueryHalfExtents}
    /\ tempVec1' = OwnVector
    /\ lastOp' = [op |-> "completionReturn"]
    /\ navMeshData' = MeshDataWith(navMesh.id, navMeshData[navMesh.id], navMesh,
                                   navMeshQuery')
    /\ UNCHANGED <<worker, positions, indices, navMesh, tileCache, posted, onmessage,
                    created, crowdVars, stepVars, crowdNavMesh>>

BuildFromNavmeshData(data) ==
    /\ created < MaxCreated
    /\ navMesh' = [kind |-> "imported", id |-> created + 1]
    /\ created' = created + 1
    /\ navMeshData' = MeshDataWith(created + 1, data.geometry, navMesh', navMeshQuery)
    /\ lastOp' = [op |-> "buildFromNavmeshData", data |-> data]
    /\ UNCHANGED <<worker, positions, indices, navMeshQuery, tileCache, posted,
                    onmessage, inCompletion, crowdVars, stepVars, extentVars,
                    crowdNavMesh>>

\* _createTileCache generating a cache whether or not there is one
CreateTileCacheAlways(st, success) ==
    IF success
    THEN [tileCache |-> [initialized |-> TRUE, id |-> st.created + 1, obstacles |-> {}],
          navMesh |-> [kind |-> "tiled", id |-> st.created + 1],
          created |-> st.created + 1]
    ELSE st

\* st holds the fields _createTileCache reads and writes
CreateTileCache(st, success) ==
    IF st.tileCache = NoTileCache
    THEN IF success
         THEN [tileCache |-> [initialized |-> TRUE, id |-> st.created + 1,
                              obstacles |-> {}],
               navMesh |-> [kind |-> "tiled", id |-> st.created + 1],
               created |-> st.created + 1]
         ELSE st
    ELSE st

\* this._tileCache?.addCylinderObstacle / addBoxObstacle: the cache with one
\* more obstacle, or no cache still
WithObstacle(cache, shape) ==
    IF cache = NoTileCache
    THEN cache
    ELSE LET used == {o.ref : o \in cache.obstacles}
             ref == CHOOSE r \in ObstacleRefs \ used : \A q \in ObstacleRefs \ used : r <= q
         IN [cache EXCEPT !.obstacles = @ \cup {[ref |-> ref, shape |-> shape]}]

AddCylinderObstacle ==
    \E success \in GenerateOutcomes(positions, indices), center \in Probes :
       LET st == CreateTileCache([tileCache |-> tileCache, navMesh |-> navMesh,
                                  created |-> created], success)
       IN /\ st.created <= MaxCreated
          /\ st.tileCache # NoTileCache => Cardinality(st.tileCache.obstacles) < MaxObstacles
          /\ tileCache' = WithObstacle(st.tileCache, "cylinder")
          /\ navMesh' = st.navMesh
          /\ created' = st.created
          /\ navMeshData' = IF st.created = created
                            THEN navMeshData
                            ELSE MeshDataWith(st.created, positions, st.navMesh,
                                              navMeshQuery)
          /\ defaultQueryHalfExtents' = TempVec1Written(center)
          /\ lastOp' = [op |-> "addCylinderObstacle", outcome |-> "returns",
                        returned |-> st.tileCache # NoTileCache,
                        obstacle |-> IF st.tileCache = NoTileCache
                                     THEN Undefined
                                     ELSE {o.ref : o \in tileCache'.obstacles
                                                         \ st.tileCache.obstacles},
                        before |-> PathAnswers]
          /\ UNCHANGED <<worker, positions, indices, navMeshQuery, posted, onmessage,
                          inCompletion, crowdVars, stepVars, tempVec1, crowdNavMesh>>

AddBoxObstacle ==
    \E success \in GenerateOutcomes(positions, indices), center \in Probes :
       LET st == CreateTileCache([tileCache |-> tileCache, navMesh |-> navMesh,
                                  created |-> created], success)
       IN /\ st.created <= MaxCreated
          /\ st.tileCache # NoTileCache => Cardinality(st.tileCache.obstacles) < MaxObstacles
          /\ tileCache' = WithObstacle(st.tileCache, "box")
          /\ navMesh' = st.navMesh
          /\ created' = st.created
          /\ navMeshData' = IF st.created = created
                            THEN navMeshData
                            ELSE MeshDataWith(st.created, positions, st.navMesh,
                                              navMeshQuery)
          /\ defaultQueryHalfExtents' = TempVec1Written(center)
          /\ lastOp' = [op |-> "addBoxObstacle", outcome |-> "returns",
                        returned |-> st.tileCache # NoTileCache,
                        obstacle |-> IF st.tileCache = NoTileCache
                                     THEN Undefined
                                     ELSE {o.ref : o \in tileCache'.obstacles
                                                         \ st.tileCache.obstacles},
                        before |-> PathAnswers]
          /\ UNCHANGED <<worker, positions, indices, navMeshQuery, posted, onmessage,
                          inCompletion, crowdVars, stepVars, tempVec1, crowdNavMesh>>

\* Whether removeObstacle(obstacle) removes the obstacle that the operation
\* just before it added
Undoes(obstacle) ==
    /\ lastOp.op \in {"addCylinderObstacle", "addBoxObstacle"}
    /\ lastOp.obstacle = {obstacle}

\* removeObstacle making a new query from the current navMesh once the
\* obstacle is removed
RemoveObstacleRequerying(obstacle) ==
    /\ tileCache' = IF tileCache = NoTileCache
                    THEN tileCache
                    ELSE [tileCache EXCEPT !.obstacles = {o \in @ : o.ref # obstacle}]
    /\ navMeshQuery' = IF navMesh = NoMesh
                       THEN navMeshQuery
                       ELSE [bound |-> TRUE, navMesh |-> navMesh.id]
    /\ navMeshData' = IF navMesh = NoMesh
                      THEN navMeshData
                      ELSE MeshDataWith(navMesh.id, navMeshData[navMesh.id], navMesh,
                                        navMeshQuery')
    /\ lastOp' = [op |-> "removeObstacle", outcome |-> "returns",
                  undoes |-> Undoes(obstacle),
                  before |-> IF Undoes(obstacle) THEN {lastOp.before} ELSE Undefined,
                  during |-> IF Undoes(obstacle) THEN {PathAnswers} ELSE Undefined]
    /\ UNCHANGED <<worker, positions, indices, navMesh, posted, onmessage,
                    inCompletion, created, crowdVars, stepVars, extentVars,
                    crowdNavMesh>>

\* removeObstacle creating the tile cache first, as the additions do
RemoveObstacleCreating(obstacle) ==
    \E success \in GenerateOutcomes(positions, indices) :
       LET st == CreateTileCache([tileCache |-> tileCache, navMesh |-> navMesh,
                                  created |-> created], success)
       IN /\ st.created <= MaxCreated
          /\ tileCache' = IF st.tileCache = NoTileCache
                          THEN st.tileCache
                          ELSE [st.tileCache EXCEPT
                                   !.obstacles = {o \in @ : o.ref # obstacle}]
          /\ navMesh' = st.navMesh
          /\ created' = st.created
          /\ navMeshData' = IF st.created = created
                            THEN navMeshData
                            ELSE MeshDataWith(st.created, positions, st.navMesh,
                                              navMeshQuery)
          /\ lastOp' = [op |-> "removeObstacle", outcome |-> "returns",
                        undoes |-> Undoes(obstacle),
                        before |-> IF Undoes(obstacle) THEN {lastOp.before} ELSE Undefined,
                        during |-> IF Undoes(obstacle) THEN {PathAnswers} ELSE Undefined]
          /\ UNCHANGED <<worker, positions, indices, navMeshQuery, posted, onmessage,
                          inCompletion, crowdVars, stepVars, extentVars,
                          crowdNavMesh>>

\* this._tileCache?.removeObstacle(obstacle): nothing without a tile cache
RemoveObstacle(obstacle) ==
    /\ tileCache' = IF tileCache = NoTileCache
                    THEN tileCache
                    ELSE [tileCache EXCEPT !.obstacles = {o \in @ : o.ref # obstacle}]
    /\ lastOp' = [op |-> "removeObstacle", outcome |-> "returns",
                  undoes |-> Undoes(obstacle),
                  before |-> IF Undoes(obstacle) THEN {lastOp.before} ELSE Undefined,
                  during |-> IF Undoes(obstacle) THEN {PathAnswers} ELSE Undefined]
    /\ UNCHANGED <<worker, positions, indices, navMesh, navMeshQuery, posted, onmessage,
                    inCompletion, created, navMeshData, crowdVars, stepVars, extentVars,
                    crowdNavMesh>>

\* this._navMeshQuery.findClosestPoint: the query answers from the mesh it
\* was made from; without a query the call throws.  The position is written
\* into _tempVec1 first
GetClosestPoint(probe) ==
    /\ defaultQueryHalfExtents' = TempVec1Written(probe)
    /\ lastOp' = [op |-> "getClosestPoint", probe |-> probe,
                  result |-> IF navMeshQuery = NoQuery
                             THEN Undefined
                             ELSE {ClosestPoint(navMeshData[navMeshQuery.navMesh],
                                                probe)}]
    /\ UNCHANGED <<worker, positions, indices, navMesh, navMeshQuery, tileCache,
                    posted, onmessage, inCompletion, created, navMeshData, tempVec1,
                    crowdNavMesh, crowdVars, stepVars>>

\* setDefaultQueryExtent: the extent is written into _tempVec1, and the
\* object _tempVec1 refers to becomes the query's defaultQueryHalfExtents;
\* without a query the assignment throws
SetDefaultQueryExtent(extent) ==
    IF navMeshQuery = NoQuery
    THEN /\ lastOp' = [op |-> "setDefaultQueryExtent", outcome |-> "throws"]
         /\ UNCHANGED <<navVars, crowdVars, stepVars>>
    ELSE /\ defaultQueryHalfExtents' = {extent}
         /\ tempVec1' = HalfExtents
         /\ lastOp' = [op |-> "setDefaultQueryExtent", outcome |-> "returns",
                       extent |-> extent]
         /\ UNCHANGED <<worker, positions, indices, navMesh, navMeshQuery, tileCache,
                         posted, onmessage, inCompletion, created, navMeshData,
                         crowdNavMesh, crowdVars, stepVars>>

\* getDefaultQueryExtent: _tempVec1 is made to refer to the query's
\* defaultQueryHalfExtents, whose value is returned in a new Vector3
GetDefaultQueryExtent ==
    IF navMeshQuery = NoQuery
    THEN /\ lastOp' = [op |-> "getDefaultQueryExtent", outcome |-> "throws"]
         /\ UNCHANGED <<navVars, crowdVars, stepVars>>
    ELSE /\ tempVec1' = HalfExtents
         /\ lastOp' = [op |-> "getDefaultQueryExtent", outcome |-> "returns",
                       result |-> defaultQueryHalfExtents]
         /\ UNCHANGED <<worker, positions, indices, navMesh, navMeshQuery, tileCache,
                         posted, onmessage, inCompletion, created, navMeshData,
                         defaultQueryHalfExtents, crowdNavMesh, crowdVars, stepVars>>

\* createCrowd: the constructor of RecastJSCrowd makes the detour crowd on
\* the navMesh the plugin has at that moment, with no agents, and registers
\* the frame observer
CreateCrowd ==
    /\ crowdNavMesh = Undefined
    /\ crowdNavMesh' = {navMesh}
    /\ recastCrowd' = [s \in Slots |-> Free]
    /\ transforms' = <<>>
    /\ agents' = <<>>
    /\ reachRadii' = <<>>
    /\ agentDestinationArmed' = <<>>
    /\ agentDestination' = <<>>
    /\ onBeforeAnimationsObserver' = TRUE
    /\ onReachTargetObservers' = {}
    /\ disposed' = FALSE
    /\ lastOp' = [op |-> "createCrowd"]
    /\ UNCHANGED <<worker, positions, indices, navMesh, navMeshQuery, tileCache,
                    posted, onmessage, inCompletion, created, navMeshData, extentVars,
                    position, gotoIssued, reached, stepVars>>

(***************************************************************************)
(* Specifications                                                          *)
(***************************************************************************)
Init ==
    /\ timeStep = DefaultTimeStep
    /\ maximumSubStepCount = DefaultMaximumSubStepCount
    /\ recastCrowd = [s \in Slots |-> Free]
    /\ transforms = <<>>
    /\ agents = <<>>
    /\ reachRadii = <<>>
    /\ agentDestinationArmed = <<>>
    /\ agentDestination = <<>>
    /\ position = [n \in TransformNodes |-> Origin]
    /\ gotoIssued = [s \in Slots |-> FALSE]
    /\ reached = [s \in Slots |-> 0]
    /\ worker = FALSE
    /\ positions = EmptyArray
    /\ indices = EmptyArray
    /\ navMesh = NoMesh
    /\ navMeshQuery = NoQuery
    /\ tileCache = NoTileCache
    /\ posted = <<>>
    /\ onmessage = NoCompletion
    /\ inCompletion = FALSE
    /\ created = 0
    /\ navMeshData = [id \in MeshIds |-> NoData]
    /\ defaultQueryHalfExtents = Undefined
    /\ tempVec1 = OwnVector
    /\ crowdNavMesh = Undefined
    /\ timeFactor = DefaultTimeFactor
    /\ onBeforeAnimationsObserver = TRUE
    /\ onReachTargetObservers = {}
    /\ disposed = FALSE
    /\ lastOp = [op |-> "constructor"]

\* The crowd and its agents, at the default time step
Next ==
    \/ \E pos \in Positions, parameters \in AgentParameters, transform \in TransformNodes :
          AddAgent(pos, parameters, transform)
    \/ \E index \in Slots, destination \in Destinations : AgentGoto(index, destination)
    \/ \E index \in Slots, destination \in Positions : AgentTeleport(index, destination)
    \/ \E index \in Slots : RemoveAgent(index)
    \/ \E deltaTime \in FrameDeltas : Update(deltaTime)

Spec == Init /\ [][Next]_vars

\* The sub-stepping of update, over every time step setting
SubStepNext ==
    \/ \E newTimeStep \in TimeSteps : SetTimeStep(newTimeStep)
    \/ \E newStepCount \in SubStepCounts : SetMaximumSubStepCount(newStepCount)
    \/ \E deltaTime \in DeltaTimes : Update(deltaTime)

SubStepSpec == Init /\ [][SubStepNext]_vars

(***************************************************************************)
(* Claims about the sub-stepping of update (SubStepSpec)                   *)
(***************************************************************************)
RECURSIVE RatSumFrom(_, _, _)
RatSumFrom(steps, k, sum) ==
    IF sum[2] > 0 /\ k <= Len(steps)
    THEN RatSumFrom(steps, k + 1, RatAdd(sum, steps[k].step))
    ELSE sum

\* The sum of the step sizes of a sequence of calls
RatSum(steps) == RatSumFrom(steps, 1, <<0, 1>>)

\* The calls of Crowd.update made by the sub-stepping branch (lines 964-982)
SubSteps(calls) == SelectSeq(calls, LAMBDA c : c.line # 959)

UpdateRan == lastOp.op = "update" /\ lastOp.deltaTime > Epsilon

C2_OneSimulationUpdate ==
    (UpdateRan /\ timeStep <= Epsilon) =>
        /\ Len(lastOp.calls) = 1
        /\ RatEq(lastOp.calls[1].step, <<lastOp.deltaTime, 1>>)

\* The plugin: builds, imports, worker replies and obstacles
PluginNext ==
    \/ \E supported \in BOOLEAN : SetWorker(supported)
    \/ \E meshes \in MeshInputs, completion \in {NoCompletion} \cup Completions :
          CreateNavMesh(meshes, completion)
    \/ WorkerReply
    \/ CompletionReturn
    \/ \E data \in NavmeshDatas : BuildFromNavmeshData(data)
    \/ AddCylinderObstacle
    \/ AddBoxObstacle
    \/ \E obstacle \in ObstacleRefs : RemoveObstacle(obstacle)
    \/ \E probe \in Probes : GetClosestPoint(probe)

PluginSpec == Init /\ [][PluginNext]_vars

\* The plugin's queries and the default query extent, with blocking builds
QueryNext ==
    \/ \E meshes \in MeshInputs : CreateNavMesh(meshes, NoCompletion)
    \/ \E extent \in Extents : SetDefaultQueryExtent(extent)
    \/ GetDefaultQueryExtent
    \/ \E probe \in Probes : GetClosestPoint(probe)
    \/ AddCylinderObstacle
    \/ AddBoxObstacle

QuerySpec == Init /\ [][QueryNext]_vars

\* A crowd created on the plugin, and the plugin's navMesh replaced by
\* blocking builds, imports and the tile cache
CrowdMeshNext ==
    \/ \E meshes \in MeshInputs : CreateNavMesh(meshes, NoCompletion)
    \/ \E data \in NavmeshDatas : BuildFromNavmeshData(data)
    \/ AddCylinderObstacle
    \/ \E obstacle \in ObstacleRefs : RemoveObstacle(obstacle)
    \/ CreateCrowd

CrowdMeshSpec == Init /\ [][CrowdMeshNext]_vars

\* Agents and their parameters
ParamNext ==
    \/ \E pos \in Positions, parameters \in AgentParameters, transform \in TransformNodes :
          AddAgent(pos, parameters, transform)
    \/ \E index \in Slots : RemoveAgent(index)
    \/ \E index \in Slots, parameters \in ParameterUpdates :
          UpdateAgentParameters(index, parameters)

ParamSpec == Init /\ [][ParamNext]_vars

\* The crowd in its scene: frames drive update; the crowd's methods are
\* called until dispose
SceneNext ==
    \/ \E pos \in Positions, parameters \in AgentParameters, transform \in TransformNodes :
          ~disposed /\ AddAgent(pos, parameters, transform)
    \/ \E index \in Slots, destination \in Destinations :
          ~disposed /\ AgentGoto(index, destination)
    \/ \E index \in Slots, destination \in Positions :
          ~disposed /\ AgentTeleport(index, destination)
    \/ \E item \in Slots, radius \in ReachRadiusValues :
          ~disposed /\ SetReachRadius(item, radius)
    \/ \E value \in TimeFactors : SetTimeFactor(value)
    \/ \E observer \in Observers : AddObserver(observer)
    \/ \E engineDelta \in FrameDeltas : Frame(engineDelta)
    \/ Dispose

SceneSpec == Init /\ [][SceneNext]_vars

\* The crowd with a caller that fills the public reachRadii array
ReachNext ==
    \/ Next
    \/ \E item \in Slots, radius \in ReachRadiusValues : SetReachRadius(item, radius)

ReachSpec == Init /\ [][ReachNext]_vars

\* The same crowd with a subscriber of onReachTargetObservable that calls
\* removeAgent or addAgent from inside its callback
ReentrantNext ==
    \/ \E pos \in Positions, transform \in TransformNodes :
          AddAgent(pos, IAgentParameters(1, 0), transform)
    \/ \E index \in Slots, destination \in Destinations : AgentGoto(index, destination)
    \/ \E item \in Slots, radius \in ReachRadiusValues : SetReachRadius(item, radius)
    \/ \E observer \in Observers : AddObserver(observer)
    \/ \E deltaTime \in FrameDeltas, reaction \in Reactions :
          UpdateNotifying(deltaTime, reaction)

ReentrantSpec == Init /\ [][ReentrantNext]_vars

(***************************************************************************)
(* Claims about the crowd's agents (Spec)                                  *)
(***************************************************************************)
\* The array slot (from 1) of the registered agent with index a
SlotOf(list, a) == CHOOSE k \in 1 .. Len(list) : list[k] = a
Registered(list) == {list[k] : k \in 1 .. Len(list)}

\* C3: an update(deltaTime > Epsilon) that leaves an agent with an armed
\* destination inside the reach region of that destination (the reach test
\* taken with the reachRadius addAgent gave the agent, its radius when not
\* set: a point strictly inside the region) disarms the
\* agent's flag and emits exactly one notification, carrying the agent's
\* index and its destination.
C3_ArrivalNotified ==
    [][(lastOp'.op = "update" /\ lastOp'.deltaTime > Epsilon) =>
          \A k \in 1 .. Len(agents) :
             (/\ agentDestinationArmed[k]
              /\ ReachTest(GetAgentPosition(recastCrowd', agents[k]),
                           agentDestination[k],
                           {recastCrowd[agents[k]].reachRadius}))
             => /\ ~agentDestinationArmed'[k]
                /\ NotifiedCount(lastOp'.notified, agents[k]) = 1
                /\ [agentIndex |-> agents[k], destination |-> agentDestination[k]]
                      \in Registered(lastOp'.notified)]_vars

\* C4: between two agentGoto calls for an agent at most one arrival
\* notification is emitted for it, over any number of update calls and also
\* while the agent stays inside the reach region (reached counts the
\* notifications for the agent since its last agentGoto or addAgent).
C4_AtMostOneNotification == \A s \in Slots : reached[s] <= 1

\* An update that found an agent, notified before, still inside the reach
\* region of its destination and emitted nothing.
C4_Witness ==
    /\ lastOp.op = "update"
    /\ lastOp.deltaTime > Epsilon
    /\ lastOp.notified = <<>>
    /\ \E k \in 1 .. Len(agents) :
          /\ reached[agents[k]] = 1
          /\ gotoIssued[agents[k]]
          /\ ~agentDestinationArmed[k]
          /\ ReachTest(GetAgentPosition(recastCrowd, agents[k]), agentDestination[k],
                       ArrayGet(reachRadii, k - 1))

\* C5: the per-agent arrays (agents, transforms, reachRadii, armed flags,
\* destinations) all have the same length, and addAgent adds an entry to
\* every one of them.
C5_ParallelArraysInLockstep ==
    /\ Len(transforms) = Len(agents)
    /\ Len(reachRadii) = Len(agents)
    /\ Len(agentDestinationArmed) = Len(agents)
    /\ Len(agentDestination) = Len(agents)

\* C6: removeAgent(i) removes exactly the slot whose stored agent index is i
\* from the agents, transforms, armed-flag and destination arrays, and every
\* other agent keeps its transform, its armed flag and its destination.
C6_RemoveByIdentity ==
    [][lastOp'.op = "removeAgent" =>
          LET i == lastOp'.index
          IN IF i \in Registered(agents)
             THEN /\ Registered(agents') = Registered(agents) \ {i}
                  /\ Len(agents') = Len(agents) - 1
                  /\ Len(transforms') = Len(transforms) - 1
                  /\ Len(agentDestinationArmed') = Len(agentDestinationArmed) - 1
                  /\ Len(agentDestination') = Len(agentDestination) - 1
                  /\ \A a \in Registered(agents) \ {i} :
                        LET k == SlotOf(agents, a)
                            n == SlotOf(agents', a)
                        IN /\ transforms'[n] = transforms[k]
                           /\ agentDestinationArmed'[n] = agentDestinationArmed[k]
                           /\ agentDestination'[n] = agentDestination[k]
             ELSE UNCHANGED <<agents, transforms, agentDestinationArmed,
                              agentDestination>>]_vars

\* A removal whose array slot differs from the agent index (additions and
\* removals have interleaved), which leaves an agent with an armed destination.
C6_Witness ==
    /\ lastOp.op = "removeAgent"
    /\ lastOp.item > -1
    /\ lastOp.item # lastOp.index
    /\ \E k \in 1 .. Len(agents) : agentDestinationArmed[k]

\* C7: an agent for which agentGoto was not called since its addAgent has
\* its armed flag false and has caused no notification, also when its index
\* is that of a removed agent that had an armed destination; and no armed
\* flag is left over past the registered agents.
C7_NoStaleArmedFlag ==
    /\ \A k \in 1 .. Len(agents) :
          ~gotoIssued[agents[k]] =>
             /\ ArrayGet(agentDestinationArmed, k - 1) # {TRUE}
             /\ reached[agents[k]] = 0
    /\ \A k \in 1 .. Len(agentDestinationArmed) :
          agentDestinationArmed[k] => k <= Len(agents)

\* addAgent has just returned the index of the agent removed right before,
\* which had an armed destination; the new agent's flag is false.
C7_Witness ==
    /\ lastOp.op = "addAgent"
    /\ lastOp.reusedArmed
    /\ agents[Len(agents)] = lastOp.index
    /\ ~agentDestinationArmed[Len(agents)]
    /\ Len(agents) > 1

\* C15: after every update, whatever its deltaTime, the transform of each
\* registered agent holds the agent's position in the simulation (for a
\* transform that several agents are bound to, no agent is looked at).
C15_UpdateWritesTransforms ==
    lastOp.op = "update" =>
       \A k \in 1 .. Len(agents) :
          (\A j \in 1 .. Len(agents) : transforms[j] = transforms[k] => j = k)
          => position[transforms[k]] = GetAgentPosition(recastCrowd, agents[k])

\* C16: agentGoto(i, d) for a registered agent i arms the flag of i and
\* records d for it, leaves the flags and destinations of all other agents
\* as they are and changes no transform's position.
C16_GotoArmsOnlyItsAgent ==
    [][(lastOp'.op = "agentGoto" /\ lastOp'.index \in Registered(agents)) =>
          LET item == SlotOf(agents, lastOp'.index)
          IN /\ agents' = agents
             /\ Len(agentDestinationArmed') = Len(agentDestinationArmed)
             /\ Len(agentDestination') = Len(agentDestination)
             /\ agentDestinationArmed'[item]
             /\ agentDestination'[item] = lastOp'.destination
             /\ \A k \in 1 .. Len(agents) :
                   k # item => /\ agentDestinationArmed'[k] = agentDestinationArmed[k]
                               /\ agentDestination'[k] = agentDestination[k]
             /\ position' = position]_vars

\* agentGoto for an agent whose array slot differs from its index, next to
\* an agent that is not armed; its transform is not at the destination.
C16_Witness ==
    /\ lastOp.op = "agentGoto"
    /\ lastOp.index \in Registered(agents)
    /\ SlotOf(agents, lastOp.index) - 1 # lastOp.index
    /\ agentDestinationArmed[SlotOf(agents, lastOp.index)]
    /\ agentDestination[SlotOf(agents, lastOp.index)] = lastOp.destination
    /\ position[transforms[SlotOf(agents, lastOp.index)]] # lastOp.destination
    /\ \E k \in 1 .. Len(agents) : ~agentDestinationArmed[k]

\* C17: agentTeleport leaves every armed flag and every recorded destination
\* as it is.
C17_TeleportKeepsDestinations ==
    [][lastOp'.op = "agentTeleport"
          => UNCHANGED <<agentDestinationArmed, agentDestination>>]_vars

\* agentTeleport has moved a registered agent with an armed destination: the
\* simulation has it elsewhere than its transform.
C17_Witness ==
    /\ lastOp.op = "agentTeleport"
    /\ lastOp.index \in Registered(agents)
    /\ agentDestinationArmed[SlotOf(agents, lastOp.index)]
    /\ GetAgentPosition(recastCrowd, lastOp.index)
          # position[transforms[SlotOf(agents, lastOp.index)]]

\* C18: updateAgentParameters(i, p) gives each of the agent's parameters,
\* reachRadius included, the value p has for it when p has one and leaves it
\* as it is otherwise; for an index that is no agent nothing changes.
C18_FieldByFieldOverride ==
    [][lastOp'.op = "updateAgentParameters" =>
          LET i == lastOp'.index
              p == lastOp'.parameters
          IN IF recastCrowd[i].active
             THEN /\ \A f \in NativeParameters :
                        recastCrowd'[i].parameters[f] =
                           IF p[f] # Undefined
                           THEN CHOOSE v \in p[f] : TRUE
                           ELSE recastCrowd[i].parameters[f]
                  /\ recastCrowd'[i].reachRadius =
                        IF p["reachRadius"] # Undefined
                        THEN CHOOSE v \in p["reachRadius"] : TRUE
                        ELSE recastCrowd[i].reachRadius
             ELSE UNCHANGED crowdVars]_vars

(***************************************************************************)
(* Claims about frames, the time factor and dispose (SceneSpec)            *)
(***************************************************************************)
\* C19: dispose unregisters the crowd's frame observer and empties the
\* observers of arrivals, and after it no frame brings an update about and no
\* observer is given an arrival.
C19_NoUpdateAfterDispose ==
    [][/\ lastOp'.op = "dispose"
            => (~onBeforeAnimationsObserver' /\ onReachTargetObservers' = {})
       /\ disposed => (lastOp'.op # "update" /\ Deliveries' = {})]_vars

\* A frame after dispose, with a positive time factor and an armed agent
\* inside its reach region, which an update would have notified.
C19_Witness ==
    /\ disposed
    /\ lastOp.op = "frame"
    /\ lastOp.engineDelta * timeFactor > Epsilon
    /\ \E k \in 1 .. Len(agents) :
          /\ agentDestinationArmed[k]
          /\ ReachTest(GetAgentPosition(recastCrowd, agents[k]), agentDestination[k],
                       ArrayGet(reachRadii, k - 1))

C8_NavMeshIsTileCacheMesh ==
    tileCache # NoTileCache => (navMesh.kind = "tiled" /\ navMesh.id = tileCache.id)

\* C9: whenever the plugin holds a navMesh (the state inside the completion
\* callback included), the query it holds was made from that navMesh.
C9_QueryBoundToNavMesh ==
    navMesh # NoMesh => navMeshQuery = [bound |-> TRUE, navMesh |-> navMesh.id]

\* C10: the tile cache comes into being only in addCylinderObstacle or
\* addBoxObstacle, and once there is one every later operation leaves the
\* plugin with that same cache instance: it is created at most once.
C10_TileCacheCreatedOnce ==
    [][/\ (tileCache = NoTileCache /\ tileCache' # NoTileCache)
            => lastOp'.op \in {"addCylinderObstacle", "addBoxObstacle"}
       /\ tileCache # NoTileCache
            => (tileCache' # NoTileCache /\ tileCache'.id = tileCache.id)]_vars

\* An obstacle operation after a build or import that followed the cache's
\* initialization: the navMesh is not the cache's, so no cache was generated.
C10_Witness ==
    /\ tileCache # NoTileCache
    /\ lastOp.op \in {"addCylinderObstacle", "addBoxObstacle"}
    /\ navMesh.kind \in {"solo", "imported"}
    /\ positions \in Geometries

\* C11: addCylinderObstacle or addBoxObstacle on a plugin that holds no
\* navMesh yet (no build succeeded) ends with an error, not with a normal
\* return, and leaves the plugin without a tile cache.
C11_ObstacleBeforeBuildFails ==
    [][(lastOp'.op \in {"addCylinderObstacle", "addBoxObstacle"} /\ navMesh = NoMesh)
          => (lastOp'.outcome = "throws" /\ tileCache' = NoTileCache)]_vars

\* C12: the completion the handler calls on a worker's reply is the
\* completion of the request that reply answers, also when a second request
\* was posted before the first reply.
C12_CompletionOfItsRequest ==
    lastOp.op = "onmessage" => lastOp.completion = lastOp.request

\* C13: getClosestPoint right after buildFromNavmeshData(data) answers as the
\* plugin that exported data does: with the closest point on the mesh the
\* data holds, for every probe.
C13_ImportAnswersLikeExport ==
    [][(lastOp.op = "buildFromNavmeshData" /\ lastOp'.op = "getClosestPoint")
          => lastOp'.result = {ClosestPoint(lastOp.data.geometry, lastOp'.probe)}]_vars

\* C14: a blocking createNavMesh either installs a new navMesh together with
\* a query made from it, or throws and leaves navMesh and the query as they
\* were.
C14_BuildAllOrNothing ==
    [][lastOp'.op = "createNavMesh" =>
          \/ /\ lastOp'.outcome = "built"
             /\ navMesh' # NoMesh
             /\ navMesh' # navMesh
             /\ navMeshQuery' = [bound |-> TRUE, navMesh |-> navMesh'.id]
          \/ /\ lastOp'.outcome = "throws"
             /\ UNCHANGED <<navMesh, navMeshQuery>>
          \/ lastOp'.outcome = "posted"]_vars

\* A blocking createNavMesh has thrown on mesh data other than that of the
\* navMesh installed before, which is still there with its query.
C14_Witness ==
    /\ lastOp.op = "createNavMesh"
    /\ lastOp.outcome = "throws"
    /\ navMesh # NoMesh
    /\ navMeshQuery = [bound |-> TRUE, navMesh |-> navMesh.id]
    /\ positions \in Geometries
    /\ positions # navMeshData[navMesh.id]

(***************************************************************************)
(* Claims about the number of sub-steps (SubStepSpec)                      *)
(***************************************************************************)
\* C24: after update(deltaTime) with deltaTime > Epsilon and a time step
\* > Epsilon, the number of sub-steps (the calls of the loop at line 980) is
\* max(1, min(floor(deltaTime / timeStep), maximumSubStepCount)) when the
\* maximum is nonzero and max(1, floor(deltaTime / timeStep)) when it is 0:
\* at least 1, and never more than a nonzero maximum.
C24_SubStepCount ==
    (UpdateRan /\ timeStep > Epsilon) =>
        LET floor == lastOp.deltaTime \div timeStep
            count == Len(SubSteps(lastOp.calls))
        IN /\ count >= 1
           /\ maximumSubStepCount # 0 => count <= maximumSubStepCount
           /\ count = IF maximumSubStepCount # 0
                      THEN IF floor >= maximumSubStepCount
                           THEN maximumSubStepCount
                           ELSE IF floor >= 1 THEN floor ELSE 1
                      ELSE IF floor >= 1 THEN floor ELSE 1

\* An update whose floor exceeded a nonzero maximum and was clamped down to it
C24_Witness ==
    /\ UpdateRan
    /\ timeStep > Epsilon
    /\ maximumSubStepCount = DefaultMaximumSubStepCount
    /\ lastOp.deltaTime \div timeStep > maximumSubStepCount
    /\ Len(SubSteps(lastOp.calls)) = maximumSubStepCount

C22_RemoveBeforeInitIsNoOp ==
    [][(lastOp'.op = "removeObstacle" /\ tileCache = NoTileCache) =>
          /\ lastOp'.outcome = "returns"
          /\ tileCache' = NoTileCache
          /\ navMesh' = navMesh
          /\ navMeshQuery' = navMeshQuery]_vars

\* removeObstacle ran on a built plugin that never added an obstacle, its
\* geometry buffers still usable for a tile cache
C22_Witness ==
    /\ lastOp.op = "removeObstacle"
    /\ tileCache = NoTileCache
    /\ navMesh # NoMesh
    /\ navMeshQuery # NoQuery
    /\ positions \in Geometries

\* C23: a query on a plugin with no built navmesh returns a default value or
\* does nothing instead of raising an error: getClosestPoint called while
\* there is no navMesh has a result.
C23_MisuseIsNoHardFailure ==
    (lastOp.op = "getClosestPoint" /\ navMesh = NoMesh) => lastOp.result # Undefined

\* C25: when the tile cache is initialized on a plugin with a navMesh, the
\* geometry the cache is built from is the geometry of the build that
\* produced the navMesh installed at that moment, also after a failed
\* createNavMesh and after buildFromNavmeshData.
C25_TileCacheFromCurrentBuild ==
    [][(tileCache = NoTileCache /\ tileCache' # NoTileCache /\ navMesh # NoMesh) =>
          navMeshData'[tileCache'.id] = navMeshData[navMesh.id]]_vars

(***************************************************************************)
(* Claims about the default query extent (QuerySpec)                       *)
(***************************************************************************)
\* C26: point queries, getDefaultQueryExtent and obstacle additions leave
\* the default query extent unchanged: what getDefaultQueryExtent returns
\* changes only by setDefaultQueryExtent or a rebuild.
C26_QueriesKeepExtent ==
    [][lastOp'.op \in {"getClosestPoint", "getDefaultQueryExtent",
                        "addCylinderObstacle", "addBoxObstacle"} =>
          defaultQueryHalfExtents' = defaultQueryHalfExtents]_vars

(***************************************************************************)
(* Claims about the crowd's navigation mesh (CrowdMeshSpec)                *)
(***************************************************************************)
\* C28: the navMesh a crowd created on a built plugin simulates on is the
\* plugin's currently installed navMesh, also after a tile-cache
\* initialization, a rebuild or an import that happens after createCrowd.
C28_CrowdOnCurrentNavMesh ==
    (crowdNavMesh # Undefined /\ crowdNavMesh # {NoMesh}) => crowdNavMesh = {navMesh}

(***************************************************************************)
(* Claims about callbacks into the crowd during update (ReentrantSpec)     *)
(***************************************************************************)
\* C27: when a subscriber calls removeAgent or addAgent from inside its
\* arrival callback during update, every agent still registered when the
\* update returns was processed exactly once in that tick (its transform
\* written, its arrival tested): no slot is skipped.
C27_EveryAgentProcessedOnce ==
    (UpdateRan /\ Len(lastOp.notified) > 0) =>
        \A k \in 1 .. Len(agents) :
           Cardinality({j \in 1 .. Len(lastOp.processed) :
                           lastOp.processed[j] = agents[k]}) = 1

====
